---------------------------- MODULE Spec2Model ----------------------------
(***************************************************************************)
(* A model of the bug-fixer's orchestration core:                          *)
(*   - src/agent_pkg/agent.py : root_agent = locator, then patch_loop      *)
(*     (patcher, tester, critic) x max_iterations, left by exit_loop;      *)
(*   - src/agent_pkg/tools.py : apply_patch, git_reset, search_code        *)
(*     (_with_rg / _with_py), run_tests;                                   *)
(*   - src/runner_inside.py   : the one run of the root agent;             *)
(*   - src/runner.py          : one container per instance.                *)
(*                                                                         *)
(* Text is modelled character by character: a text is a sequence of        *)
(* one-character tokens.  LF and CR are the two line-break characters,     *)
(* SUR is a lone surrogate (a character of a Python str that UTF-8 cannot  *)
(* encode), every other token is an ordinary character.                    *)
(*                                                                         *)
(* Six specifications share the variables:                                 *)
(*   Spec          - one attempt of the repair loop (agent.py);            *)
(*   SpecLive      - Spec, where a subprocess may never exit;              *)
(*   SpecPatch     - one apply_patch call on every small file;             *)
(*   SpecSearch    - one search_code call on every small tree;             *)
(*   SpecTests     - one run_tests call on every small output;             *)
(*   SpecProvision - prepare_repo / setup_env calls of two containers.     *)
(***************************************************************************)
EXTENDS Integers, Sequences, FiniteSets, TLC

VARIABLES
    pc,          \* position of the run: which agent's turn it is
    iter,        \* LoopAgent's times_looped
    term,        \* termination of the attempt
    escalate,    \* tool_context.actions.escalate of the critic's events
    uncaught,    \* the exception that ended the run, or "none"
    tree,        \* the working tree at repo_path: path of a file -> content
    cwd,         \* what the process's current directory is
    turnCalls,   \* tool calls made so far in the current agent turn
    cycles,      \* completed patch/test/critique cycles
    trace,       \* the agent turns started so far, in order
    testResult,  \* the last run_tests result
    resets,      \* git_reset calls of the current critic turn: their results
    before,      \* the working tree before the last apply_patch call
    call,        \* the arguments of the last tool call
    ret,         \* what the last apply_patch call returned or raised
    sfs,         \* the tree search_code scans: file path -> lines
    hasRg,       \* whether `which rg` finds ripgrep
    hits,        \* what the last search_code call returned
    searchErr,   \* the exception the last search_code call raised, or "none"
    venv,        \* the venv of the repository under /mirror/venvs
    checkout,    \* container -> workspace_root -> the checkout under it
    proc         \* container -> the prepare_repo call its process is in

vars == <<pc, iter, term, escalate, uncaught, tree, cwd, turnCalls, cycles,
          trace, testResult, resets, before, call, ret, sfs, hasRg, hits,
          searchErr, venv, checkout, proc>>

loopVars == <<iter, term, escalate, uncaught, cwd, turnCalls, cycles, trace,
              testResult, resets>>

searchVars == <<sfs, hasRg, hits, searchErr>>

provVars == <<venv, checkout, proc>>

(***************************************************************************)
(* Bounds of the model.                                                    *)
(***************************************************************************)
MaxFileLen == 3      \* characters of a file of SpecPatch
MaxPatchLen == 2     \* characters of a patch_text of SpecPatch
MaxLimit == 1        \* the size budgets 0..MaxLimit the budget claim ranges over
MaxToolCalls == 2    \* tool calls the policy actor makes in one agent turn

(***************************************************************************)
(* Characters and small helpers.                                           *)
(***************************************************************************)
LF == "LF"
CR == "CR"
FF == "FF"      \* the form feed, one of the other line boundaries of str.splitlines
SUR == "SUR"

Min(S) == CHOOSE x \in S : \A y \in S : x <= y

Max(S) == CHOOSE x \in S : \A y \in S : x >= y

RECURSIVE Join(_)
\* "".join(lines)
Join(ls) == IF ls = <<>> THEN <<>> ELSE Head(ls) \o Join(Tail(ls))

SeqsUpTo(S, n) == UNION {[1..k -> S] : k \in 0..n}

StartsWith(s, p) == Len(s) >= Len(p) /\ SubSeq(s, 1, Len(p)) = p

EndsWith(s, c) == Len(s) > 0 /\ s[Len(s)] = c

(***************************************************************************)
(* str.splitlines: a line ends at LF, at CR, at CR LF taken together, or   *)
(* at one of the other line boundaries (FF stands for them); there is no   *)
(* empty last line.                                                        *)
(***************************************************************************)
FirstLineEnd(s) ==
    LET brks == {i \in 1..Len(s) : s[i] \in {LF, CR, FF}}
    IN  IF brks = {} THEN Len(s)
        ELSE LET i == Min(brks)
             IN  IF s[i] = CR /\ i < Len(s) /\ s[i + 1] = LF THEN i + 1 ELSE i

RECURSIVE SplitLinesKeepEnds(_)
\* s.splitlines(keepends=True)
SplitLinesKeepEnds(s) ==
    IF s = <<>> THEN <<>>
    ELSE LET n == FirstLineEnd(s)
         IN  <<SubSeq(s, 1, n)>> \o SplitLinesKeepEnds(SubSeq(s, n + 1, Len(s)))

\* a line without its line break
StripEnd(l) == SelectSeq(l, LAMBDA c : c \notin {LF, CR, FF})

\* s.splitlines()
SplitLines(s) ==
    LET ls == SplitLinesKeepEnds(s) IN [i \in 1..Len(ls) |-> StripEnd(ls[i])]

(***************************************************************************)
(* Path.read_text / Path.write_text (text mode, newline=None).             *)
(***************************************************************************)
RECURSIVE TranslateNewlines(_)
\* reading in universal-newlines mode: CR LF and a lone CR both read as LF
TranslateNewlines(s) ==
    IF s = <<>> THEN <<>>
    ELSE IF Head(s) = CR
         THEN IF Len(s) >= 2 /\ s[2] = LF
              THEN <<LF>> \o TranslateNewlines(SubSeq(s, 3, Len(s)))
              ELSE <<LF>> \o TranslateNewlines(Tail(s))
         ELSE <<Head(s)>> \o TranslateNewlines(Tail(s))

ReadText(bytes) == TranslateNewlines(bytes)

Encodable(s) == \A i \in 1..Len(s) : s[i] # SUR

\* a tree is a function from the paths that are files to their contents
IsFile(t, path) == path \in DOMAIN t

\* open(path, "w") truncates the file; write() then encodes the text and
\* raises when it cannot, leaving the file empty
WriteText(t, path, data) ==
    IF Encodable(data)
    THEN [tree |-> [t EXCEPT ![path] = data], raised |-> "none"]
    ELSE [tree |-> [t EXCEPT ![path] = <<>>], raised |-> "UnicodeEncodeError"]

(***************************************************************************)
(* difflib.unified_diff(original_lines, new_lines, fromfile, tofile,       *)
(* lineterm=""), as apply_patch calls it.  SequenceMatcher takes the       *)
(* longest matching block (of those, the one that starts earliest in a,    *)
(* then earliest in b) and recurses to its left and to its right; lines    *)
(* between two blocks are deleted, then inserted.                          *)
(***************************************************************************)
Matches(a, b) ==
    {m \in (1..Len(a)) \X (1..Len(b)) \X (1..Len(a)) :
        /\ m[1] + m[3] - 1 <= Len(a)
        /\ m[2] + m[3] - 1 <= Len(b)
        /\ \A t \in 0..(m[3] - 1) : a[m[1] + t] = b[m[2] + t]}

LongestMatch(a, b) ==
    LET ms == Matches(a, b)
        k == Max({m[3] : m \in ms})
        i == Min({m[1] : m \in {x \in ms : x[3] = k}})
        j == Min({m[2] : m \in {x \in ms : x[3] = k /\ x[1] = i}})
    IN  <<i, j, k>>

Tagged(tag, ls) == [i \in 1..Len(ls) |-> [tag |-> tag, line |-> ls[i]]]

RECURSIVE DiffBody(_, _)
\* the lines of the diff, each with its tag: " " kept, "-" deleted, "+" added
DiffBody(a, b) ==
    IF Matches(a, b) = {}
    THEN Tagged("-", a) \o Tagged("+", b)
    ELSE LET m == LongestMatch(a, b)
             i == m[1]
             j == m[2]
             k == m[3]
         IN  DiffBody(SubSeq(a, 1, i - 1), SubSeq(b, 1, j - 1))
             \o Tagged(" ", SubSeq(a, i, i + k - 1))
             \o DiffBody(SubSeq(a, i + k, Len(a)), SubSeq(b, j + k, Len(b)))

\* unified_diff's default n: the lines of context kept around a change
ContextLines == 3

\* The hunk: the changed lines with at most ContextLines kept lines before
\* the first and after the last change.  (An apply_patch edit changes one
\* place, so the diff has one hunk.)
Hunk(body) ==
    LET changed == {i \in 1..Len(body) : body[i].tag # " "}
    IN  IF changed = {} THEN <<>>
        ELSE SubSeq(body, Max({1, Min(changed) - ContextLines}),
                          Min({Len(body), Max(changed) + ContextLines}))

\* The three header lines, which lineterm="" leaves without a line break.
\* The ranges of the @@ line (digits, commas, blanks) are left out: they
\* hold no line break and start no line.
DiffHeader(path) ==
    <<"-", "-", "-", " ", path, "+", "+", "+", " ", path, "@", "@">>

RECURSIVE DiffLinesText(_)
DiffLinesText(h) ==
    IF h = <<>> THEN <<>>
    ELSE <<Head(h).tag>> \o Head(h).line \o DiffLinesText(Tail(h))

\* "".join(difflib.unified_diff(...)): the empty text when nothing changed
UnifiedDiff(a, b, path) ==
    LET h == Hunk(DiffBody(a, b))
    IN  IF h = <<>> THEN <<>> ELSE DiffHeader(path) \o DiffLinesText(h)

(***************************************************************************)
(* _count_changed_lines(diff) -> (added, deleted)                          *)
(***************************************************************************)
CountAdded(diff) ==
    Cardinality({i \in 1..Len(SplitLines(diff)) :
        /\ StartsWith(SplitLines(diff)[i], <<"+">>)
        /\ ~StartsWith(SplitLines(diff)[i], <<"+", "+", "+">>)})

CountDeleted(diff) ==
    Cardinality({i \in 1..Len(SplitLines(diff)) :
        /\ StartsWith(SplitLines(diff)[i], <<"-">>)
        /\ ~StartsWith(SplitLines(diff)[i], <<"-", "-", "-">>)})

(***************************************************************************)
(* apply_patch(patch_text, file_path, line_number)                         *)
(* The result: the tree after the call, the exception raised ("none" when  *)
(* the call returned) and the diff returned.                               *)
(***************************************************************************)
NormalizePatchText(patch_text) ==
    IF EndsWith(patch_text, LF) THEN patch_text ELSE patch_text \o <<LF>>

ApplyPatch(t, patch_text, file_path, line_number) ==
    IF ~IsFile(t, file_path)
    THEN [tree |-> t, raised |-> "FileNotFoundError", diff |-> <<>>]
    ELSE
    LET original_lines == SplitLinesKeepEnds(ReadText(t[file_path]))
        idx == line_number - 1
    IN  IF ~(0 <= idx /\ idx < Len(original_lines))
        THEN [tree |-> t, raised |-> "IndexError", diff |-> <<>>]
        ELSE
        LET patch_lines == SplitLinesKeepEnds(NormalizePatchText(patch_text))
            new_lines == SubSeq(original_lines, 1, idx) \o patch_lines
                         \o SubSeq(original_lines, idx + 2, Len(original_lines))
            diff == UnifiedDiff(original_lines, new_lines, file_path)
            w == WriteText(t, file_path, Join(new_lines))
        IN  [tree |-> w.tree, raised |-> w.raised,
             diff |-> IF w.raised = "none" THEN diff ELSE <<>>]

(***************************************************************************)
(* Values the variables of one specification hold in the other two.        *)
(***************************************************************************)
NoCall == [tool |-> "none"]

NoRet == [raised |-> "none", diff |-> <<>>]

LoopIdle ==
    /\ iter = 0
    /\ term = "pending"
    /\ escalate = FALSE
    /\ uncaught = "none"
    /\ cwd = "repo"
    /\ turnCalls = 0
    /\ cycles = 0
    /\ trace = <<>>
    /\ testResult = "none"
    /\ resets = <<>>

SearchIdle ==
    /\ sfs = <<>>
    /\ hasRg = FALSE
    /\ hits = <<>>
    /\ searchErr = "none"

ProvIdle ==
    /\ venv = <<>>
    /\ checkout = <<>>
    /\ proc = <<>>

(***************************************************************************)
(* SpecPatch: one apply_patch call, on every file of at most MaxFileLen    *)
(* characters (or no file), with every patch_text of at most MaxPatchLen   *)
(* characters and every line number around the file's lines.               *)
(***************************************************************************)
FileChars == {"a", LF, CR, FF}

PatchChars == {"a", "b", LF, CR, FF, SUR}

FileContents == SeqsUpTo(FileChars, MaxFileLen)

PatchTexts == SeqsUpTo(PatchChars, MaxPatchLen)

LineNumbers == (0 - 1)..(MaxFileLen + 1)

PatchPaths == {"f", "g"}

\* the file g is there in every tree; the file f has any content, or is missing
OtherFile == <<"a", LF>>

PatchTrees ==
    {[p \in {"f", "g"} |-> IF p = "f" THEN c ELSE OtherFile] : c \in FileContents}
    \cup {[p \in {"g"} |-> OtherFile]}

InitPatch ==
    /\ pc = "ready"
    /\ tree \in PatchTrees
    /\ before = tree
    /\ call = NoCall
    /\ ret = NoRet
    /\ LoopIdle
    /\ SearchIdle
    /\ ProvIdle

PatchCall ==
    /\ pc = "ready"
    /\ \E patch_text \in PatchTexts, file_path \in PatchPaths,
          line_number \in LineNumbers :
          LET r == ApplyPatch(tree, patch_text, file_path, line_number)
          IN  /\ call' = [tool |-> "apply_patch", patch_text |-> patch_text,
                          file_path |-> file_path, line_number |-> line_number]
              /\ before' = tree
              /\ tree' = r.tree
              /\ ret' = [raised |-> r.raised, diff |-> r.diff]
              /\ pc' = "returned"
    /\ UNCHANGED loopVars
    /\ UNCHANGED searchVars
    /\ UNCHANGED provVars

NextPatch == PatchCall

SpecPatch == InitPatch /\ [][NextPatch]_vars

(***************************************************************************)
(* SpecSearch: one search_code call.  The process's current directory      *)
(* holds the file "top" and the directory "src" with three files; a file   *)
(* is a sequence of lines, a line a sequence of characters without its     *)
(* line break.  "nodir" names no directory.  The order in which a          *)
(* directory walk (rglob, ripgrep's walker) meets the files is not fixed   *)
(* by the code: it is an input, a permutation of the files.                *)
(***************************************************************************)
MaxLines == 2        \* lines of a file of SpecSearch

SrcFiles == {"src/x", "src/y", "src/z"}

AllFiles == SrcFiles \cup {"top"}

LineTexts == {<<"a">>, <<"b">>}

Patterns == {<<"a">>, <<".">>}

RootLists == {<<>>, <<"src">>, <<"nodir">>, <<"nodir", "src">>}

SearchTrees == [AllFiles -> SeqsUpTo(LineTexts, MaxLines)]

Orders == {o \in [1..Cardinality(AllFiles) -> AllFiles] :
              \A i, j \in DOMAIN o : i # j => o[i] # o[j]}

IsDir(root) == root \in {"src", "."}

\* the files below a root, in the order the walk meets them
FilesUnder(root, order) ==
    SelectSeq(order, LAMBDA f : \/ root = "."
                                \/ root = "src" /\ f \in SrcFiles)

\* `pattern in line`
PyMatch(pattern, line) ==
    \E i \in 1..(Len(line) - Len(pattern) + 1) :
        SubSeq(line, i, i + Len(pattern) - 1) = pattern

\* ripgrep reads the pattern as a regular expression: "." stands for any
\* one character
RgMatch(pattern, line) ==
    \E i \in 1..(Len(line) - Len(pattern) + 1) :
        \A k \in 1..Len(pattern) :
            pattern[k] = "." \/ line[i + k - 1] = pattern[k]

Hit(fs, f, i) == [path |-> f, line |-> i, snippet |-> fs[f][i]]

Take(sq, n) == SubSeq(sq, 1, Min({n, Len(sq)}))

\* search_code passes this limit to the backend
SearchLimit == 1

\* the loop `if limit and len(hits) >= limit` leaves at: the first `limit`
\* hits of what the scan would append (all of them for limit 0)
Limited(all, limit) == IF limit # 0 THEN Take(all, limit) ELSE all

RECURSIVE PyFileHits(_, _, _, _)
\* every matching line of file f from line i on
PyFileHits(fs, pattern, f, i) ==
    IF i > Len(fs[f]) THEN <<>>
    ELSE (IF PyMatch(pattern, fs[f][i]) THEN <<Hit(fs, f, i)>> ELSE <<>>)
         \o PyFileHits(fs, pattern, f, i + 1)

RECURSIVE PyFilesHits(_, _, _)
PyFilesHits(fs, pattern, files) ==
    IF files = <<>> THEN <<>>
    ELSE PyFileHits(fs, pattern, Head(files), 1)
         \o PyFilesHits(fs, pattern, Tail(files))

RECURSIVE PyRootsHits(_, _, _, _)
PyRootsHits(fs, pattern, roots, order) ==
    IF roots = <<>> THEN <<>>
    ELSE PyFilesHits(fs, pattern, FilesUnder(Head(roots), order))
         \o PyRootsHits(fs, pattern, Tail(roots), order)

\* _with_py(pattern, roots, limit)
WithPy(fs, pattern, roots, limit, order) ==
    [hits |-> Limited(PyRootsHits(fs, pattern, roots, order), limit),
     raised |-> "none"]

\* --max-count 1: ripgrep reports the first matching line of each file
RgFileHits(fs, pattern, f) ==
    LET ms == {i \in 1..Len(fs[f]) : RgMatch(pattern, fs[f][i])}
    IN  IF ms = {} THEN <<>> ELSE <<Hit(fs, f, Min(ms))>>

RECURSIVE RgFilesHits(_, _, _)
RgFilesHits(fs, pattern, files) ==
    IF files = <<>> THEN <<>>
    ELSE RgFileHits(fs, pattern, Head(files))
         \o RgFilesHits(fs, pattern, Tail(files))

RECURSIVE RgRootsHits(_, _, _, _)
RgRootsHits(fs, pattern, roots, order) ==
    IF roots = <<>> THEN <<>>
    ELSE RgFilesHits(fs, pattern, FilesUnder(Head(roots), order))
         \o RgRootsHits(fs, pattern, Tail(roots), order)

\* the exit code of rg: 2 when a path cannot be searched, else 0 with a
\* match and 1 without
RgExitCode(roots, matches) ==
    IF \E i \in DOMAIN roots : ~IsDir(roots[i]) THEN 2
    ELSE IF matches # <<>> THEN 0 ELSE 1

\* _with_rg(pattern, roots, limit): with no path on its command line rg
\* searches the current directory
WithRg(fs, pattern, roots, limit, order) ==
    LET searched == IF roots = <<>> THEN <<".">> ELSE roots
        matches == RgRootsHits(fs, pattern, searched, order)
    IN  IF RgExitCode(roots, matches) \notin {0, 1}
        THEN [hits |-> <<>>, raised |-> "RuntimeError"]
        ELSE [hits |-> Limited(matches, limit), raised |-> "none"]

\* search_code(pattern, path)
SearchCode(fs, pattern, roots, rg, order) ==
    IF rg THEN WithRg(fs, pattern, roots, SearchLimit, order)
    ELSE WithPy(fs, pattern, roots, SearchLimit, order)

PatchIdle ==
    /\ tree = <<>>
    /\ before = <<>>
    /\ ret = NoRet

InitSearch ==
    /\ pc = "ready"
    /\ sfs \in SearchTrees
    /\ hasRg \in BOOLEAN
    /\ hits = <<>>
    /\ searchErr = "none"
    /\ call = NoCall
    /\ PatchIdle
    /\ LoopIdle
    /\ ProvIdle

SearchCall ==
    /\ pc = "ready"
    /\ \E pattern \in Patterns, roots \in RootLists, order \in Orders :
          LET r == SearchCode(sfs, pattern, roots, hasRg, order)
          IN  /\ call' = [tool |-> "search_code", pattern |-> pattern,
                          roots |-> roots]
              /\ hits' = r.hits
              /\ searchErr' = r.raised
              /\ pc' = "returned"
    /\ UNCHANGED <<sfs, hasRg, tree, before, ret>>
    /\ UNCHANGED loopVars
    /\ UNCHANGED provVars

NextSearch == SearchCall

SpecSearch == InitSearch /\ [][NextSearch]_vars

(***************************************************************************)
(* Spec: one attempt.  runner_inside.py has provisioned the checkout       *)
(* (tree = the base commit) and iterates runner.run(...) once: the first   *)
(* runner.run(...) of the script builds a generator nobody iterates, so    *)
(* it runs nothing.                                                        *)
(*                                                                         *)
(* root_agent is SequentialAgent[locator, patch_loop]; patch_loop is       *)
(* LoopAgent[patcher, tester, critic] with max_iterations.  An agent's     *)
(* turn is the policy actor's: it calls the tools of that agent any        *)
(* number of times (at most MaxToolCalls here) and ends the turn.  A tool  *)
(* that raises ends the run: nothing in the repository catches it.         *)
(***************************************************************************)
MaxIterations == 4

LoopSubAgentsSwapped == <<"tester", "patcher", "critic">>

LoopSubAgents == <<"patcher", "tester", "critic">>

\* the tools each LlmAgent is given
ToolsOf(agent) ==
    CASE agent = "locator" -> {"search_code"}
      [] agent = "patcher" -> {"apply_patch"}
      [] agent = "tester"  -> {"run_tests"}
      [] agent = "critic"  -> {"git_reset", "exit_loop"}
      [] OTHER -> {}

IndexOf(sq, x) == CHOOSE i \in DOMAIN sq : sq[i] = x

\* Where the run goes when the turn of `agent` ends: the next agent, or
\* the end of the attempt.  LoopAgent leaves the loop when a sub-agent's
\* event escalates, and when times_looped reaches max_iterations.
AfterTurnNoExit(agent, esc, k) ==
    IF agent = "locator"
    THEN IF 0 < MaxIterations
         THEN [pc |-> LoopSubAgents[1], iter |-> 0, term |-> "pending"]
         ELSE [pc |-> "done", iter |-> 0, term |-> "exhausted"]
    ELSE IF IndexOf(LoopSubAgents, agent) < Len(LoopSubAgents)
         THEN [pc |-> LoopSubAgents[IndexOf(LoopSubAgents, agent) + 1],
               iter |-> k, term |-> IF esc THEN "succeeded" ELSE "pending"]
         ELSE IF k + 1 < MaxIterations
              THEN [pc |-> LoopSubAgents[1], iter |-> k + 1,
                    term |-> IF esc THEN "succeeded" ELSE "pending"]
              ELSE [pc |-> "done", iter |-> k + 1, term |-> "exhausted"]

AfterTurn(agent, esc, k) ==
    IF agent = "locator"
    THEN IF 0 < MaxIterations
         THEN [pc |-> LoopSubAgents[1], iter |-> 0, term |-> "pending"]
         ELSE [pc |-> "done", iter |-> 0, term |-> "exhausted"]
    ELSE IF esc
         THEN [pc |-> "done", iter |-> k, term |-> "succeeded"]
         ELSE IF IndexOf(LoopSubAgents, agent) < Len(LoopSubAgents)
              THEN [pc |-> LoopSubAgents[IndexOf(LoopSubAgents, agent) + 1],
                    iter |-> k, term |-> "pending"]
              ELSE IF k + 1 < MaxIterations
                   THEN [pc |-> LoopSubAgents[1], iter |-> k + 1,
                         term |-> "pending"]
                   ELSE [pc |-> "done", iter |-> k + 1, term |-> "exhausted"]

\* the checkout of the base commit: every file of it is tracked
BaseTree == [p \in {"f", "g"} |-> <<"a", LF>>]

\* what the locator searches in an attempt
LoopSearchTree ==
    [f \in AllFiles |-> IF f = "src/x" THEN <<<<"b">>, <<"a">>>> ELSE <<<<"a">>>>]

LoopRootLists == {<<"src">>, <<"nodir">>}

\* what the patcher passes to apply_patch in an attempt
LoopPatchTexts == {<<"b">>}

LoopPatchPaths == {"f", "nofile"}

LoopLineNumbers == {1, 2}

Cwds == {"repo", "other_repo", "no_repo"}

Commits == {"HEAD", "unknown"}

(***************************************************************************)
(* git_reset(commit, clean_untracked): git reset --hard, then git clean    *)
(* -fd, both run in the process's current directory `dir`.  They restore   *)
(* the tree `t` only when that directory is the checkout.                  *)
(***************************************************************************)
UntrackedPath == "cache"

\* a reset that fails when the tree is at the commit already
GitResetNothingToReset(t, dir, commit, clean_untracked) ==
    IF dir = "no_repo" \/ commit # "HEAD" \/ t = BaseTree
    THEN [tree |-> t, ok |-> FALSE]
    ELSE IF dir # "repo" THEN [tree |-> t, ok |-> TRUE]
    ELSE [tree |-> BaseTree, ok |-> TRUE]

GitReset(t, dir, commit, clean_untracked) ==
    IF dir = "no_repo" \/ commit # "HEAD"
    THEN [tree |-> t, ok |-> FALSE]
    ELSE IF dir # "repo"
         THEN [tree |-> t, ok |-> TRUE]
         ELSE [tree |-> [p \in (IF clean_untracked THEN DOMAIN BaseTree
                                ELSE DOMAIN BaseTree \cup DOMAIN t) |->
                            IF p \in DOMAIN BaseTree THEN BaseTree[p] ELSE t[p]],
               ok |-> TRUE]

Init ==
    /\ pc = "locator"
    /\ iter = 0
    /\ term = "pending"
    /\ escalate = FALSE
    /\ uncaught = "none"
    /\ tree = BaseTree
    /\ cwd \in Cwds
    /\ turnCalls = 0
    /\ cycles = 0
    /\ trace = <<"locator">>
    /\ testResult = "none"
    /\ resets = <<>>
    /\ before = BaseTree
    /\ call = NoCall
    /\ ret = NoRet
    /\ sfs = LoopSearchTree
    /\ hasRg \in BOOLEAN
    /\ hits = <<>>
    /\ searchErr = "none"
    /\ ProvIdle

\* an exception no one catches ends the run
Crash(exc) ==
    /\ pc' = "done"
    /\ term' = "aborted"
    /\ uncaught' = exc
    /\ UNCHANGED <<iter, escalate, cycles, trace, turnCalls>>

Returned ==
    /\ turnCalls' = turnCalls + 1
    /\ UNCHANGED <<pc, iter, term, escalate, uncaught, cycles, trace>>

\* the agent whose turn it is may call `tool`
CanCall(tool) == tool \in ToolsOf(pc) /\ turnCalls < MaxToolCalls

LocatorSearchCode ==
    /\ CanCall("search_code")
    /\ \E pattern \in Patterns, roots \in LoopRootLists, order \in Orders :
          LET r == SearchCode(sfs, pattern, roots, hasRg, order)
          IN  /\ call' = [tool |-> "search_code", pattern |-> pattern,
                          roots |-> roots]
              /\ hits' = r.hits
              /\ searchErr' = r.raised
              /\ IF r.raised = "none" THEN Returned ELSE Crash(r.raised)
    /\ UNCHANGED <<tree, cwd, testResult, resets, before, ret, sfs, hasRg>>
    /\ UNCHANGED provVars

PatcherApplyPatch ==
    /\ CanCall("apply_patch")
    /\ \E patch_text \in LoopPatchTexts, file_path \in LoopPatchPaths,
          line_number \in LoopLineNumbers :
          LET r == ApplyPatch(tree, patch_text, file_path, line_number)
          IN  /\ call' = [tool |-> "apply_patch", patch_text |-> patch_text,
                          file_path |-> file_path, line_number |-> line_number]
              /\ before' = tree
              /\ tree' = r.tree
              /\ ret' = [raised |-> r.raised, diff |-> r.diff]
              /\ IF r.raised = "none" THEN Returned ELSE Crash(r.raised)
    /\ UNCHANGED <<cwd, testResult, resets, sfs, hasRg, hits, searchErr>>
    /\ UNCHANGED provVars

\* the tree with the untracked file a pytest run writes under repo_path
\* (its cache directory)
WithUntracked(t) ==
    [p \in DOMAIN t \cup {UntrackedPath} |->
        IF p \in DOMAIN t THEN t[p] ELSE <<>>]

\* run_tests returns pytest's verdict on the tree, or raises when the
\* python_exe it is given cannot be started; the pytest run may leave an
\* untracked file in the tree
TesterRunTests ==
    /\ CanCall("run_tests")
    /\ \E python_exe \in {"venv_python", "nofile"} :
          /\ call' = [tool |-> "run_tests", python_exe |-> python_exe]
          /\ IF python_exe = "nofile"
             THEN Crash("FileNotFoundError") /\ UNCHANGED <<testResult, tree>>
             ELSE /\ Returned
                  /\ testResult' \in {"pass", "fail"}
                  /\ tree' \in {tree, WithUntracked(tree)}
    /\ UNCHANGED <<cwd, resets, before, ret, sfs, hasRg, hits, searchErr>>
    /\ UNCHANGED provVars

CriticGitReset ==
    /\ CanCall("git_reset")
    /\ \E commit \in Commits, clean_untracked \in BOOLEAN :
          LET r == GitReset(tree, cwd, commit, clean_untracked)
          IN  /\ call' = [tool |-> "git_reset", commit |-> commit,
                          clean_untracked |-> clean_untracked]
              /\ tree' = r.tree
              /\ resets' = Append(resets, r.ok)
    /\ Returned
    /\ UNCHANGED <<cwd, testResult, before, ret, sfs, hasRg, hits, searchErr>>
    /\ UNCHANGED provVars

\* exit_loop(tool_context)
CriticExitLoop ==
    /\ CanCall("exit_loop")
    /\ call' = [tool |-> "exit_loop"]
    /\ escalate' = TRUE
    /\ turnCalls' = turnCalls + 1
    /\ UNCHANGED <<pc, iter, term, uncaught, cycles, trace, tree, cwd,
                   testResult, resets, before, ret, sfs, hasRg, hits, searchErr>>
    /\ UNCHANGED provVars

\* the agent whose turn it is ends it
TurnEnd ==
    /\ pc # "done"
    /\ LET nxt == AfterTurn(pc, escalate, iter)
       IN  /\ pc' = nxt.pc
           /\ iter' = nxt.iter
           /\ term' = nxt.term
           /\ trace' = IF nxt.pc = "done" THEN trace ELSE Append(trace, nxt.pc)
           /\ cycles' = IF pc = LoopSubAgents[Len(LoopSubAgents)]
                        THEN cycles + 1 ELSE cycles
           /\ resets' = IF nxt.pc = "critic" THEN <<>> ELSE resets
    /\ turnCalls' = 0
    /\ UNCHANGED <<escalate, uncaught, tree, cwd, testResult, before, call,
                   ret, sfs, hasRg, hits, searchErr>>
    /\ UNCHANGED provVars

Next ==
    \/ LocatorSearchCode
    \/ PatcherApplyPatch
    \/ TesterRunTests
    \/ CriticGitReset
    \/ CriticExitLoop
    \/ TurnEnd

Spec == Init /\ [][Next]_vars

(***************************************************************************)
(* The claims about the repair loop, checked under Spec.                   *)
(***************************************************************************)

\* C1: an attempt performs at most MaxIterations patch/test/critique
\* cycles, and an attempt that has ended without the critic ever calling
\* exit_loop has ended Exhausted after exactly MaxIterations cycles.
C1_LoopBound ==
    /\ cycles <= MaxIterations
    /\ (term # "pending" /\ ~escalate) =>
           (term = "exhausted" /\ cycles = MaxIterations)

\* C2: once the attempt is Succeeded, Exhausted or Aborted, no step is
\* taken any more: no tool is called, no turn starts, and the termination
\* state and everything else stay as they are.
C2_TerminationMonotonic == [][term # "pending" => UNCHANGED vars]_vars

\* an attempt the critic ended in its second cycle, with iterations left
C2_Witness ==
    /\ term = "succeeded"
    /\ cycles = 2
    /\ iter + 1 < MaxIterations
    /\ call.tool \in {"exit_loop", "git_reset"}

\* C3: at the start of the patch step of every iteration k > 0 the working
\* tree is the clean base revision, whatever the patch steps before did
\* (the reset of the retry has restored it).
C3_CleanTreeOnRetry ==
    (pc = "patcher" /\ iter > 0 /\ turnCalls = 0) => tree = BaseTree

ExpectedTurn(i) ==
    IF i = 1 THEN "locator"
    ELSE CASE (i - 2) % 3 = 0 -> "patcher"
           [] (i - 2) % 3 = 1 -> "tester"
           [] OTHER -> "critic"

\* C4: the turns of an attempt are the locate step, once and first, then
\* patch, test, critique in this order again and again; and a tool is
\* called only in the step it belongs to: search_code in the locate
\* step, apply_patch in a patch step, run_tests in a test step, git_reset
\* and exit_loop in a critique step.
C4_StepOrder ==
    /\ \A i \in DOMAIN trace : trace[i] = ExpectedTurn(i)
    /\ pc # "done" => pc = trace[Len(trace)]
    /\ (pc # "done" /\ turnCalls > 0) =>
          \/ pc = "locator" /\ call.tool = "search_code"
          \/ pc = "patcher" /\ call.tool = "apply_patch"
          \/ pc = "tester" /\ call.tool = "run_tests"
          \/ pc = "critic" /\ call.tool \in {"git_reset", "exit_loop"}

\* the test step of the third iteration has called run_tests
C4_Witness ==
    /\ pc = "tester"
    /\ iter = 2
    /\ turnCalls > 0
    /\ Len(trace) = 9

(***************************************************************************)
(* The claims about apply_patch, checked under SpecPatch.                  *)
(***************************************************************************)

\* C5: after every apply_patch call that returns, the file has as many
\* lines as before, every line but line_number is as it was, line
\* line_number is patch_text ended by one line break, and no other file
\* has changed.
C5_SingleLineEdit ==
    (pc = "returned" /\ ret.raised = "none") =>
        LET old == SplitLinesKeepEnds(before[call.file_path])
            new == SplitLinesKeepEnds(tree[call.file_path])
        IN  /\ Len(new) = Len(old)
            /\ \A i \in 1..Len(old) :
                  IF i = call.line_number
                  THEN new[i] = NormalizePatchText(call.patch_text)
                  ELSE new[i] = old[i]
            /\ DOMAIN tree = DOMAIN before
            /\ \A q \in DOMAIN before \ {call.file_path} : tree[q] = before[q]

\* C6: for every limit in 0..MaxLimit, a patch whose diff counts more
\* than limit added plus deleted lines is rejected: the call does not
\* apply it and no file is modified.
C6_SizeBudget ==
    \A limit \in 0..MaxLimit :
        (pc = "returned"
         /\ CountAdded(ret.diff) + CountDeleted(ret.diff) > limit) =>
            (ret.raised # "none" /\ tree = before)

\* C7: after every apply_patch call that fails, every file of the working
\* tree holds what it held before the call.
C7_FailedCallLeavesTree ==
    (pc = "returned" /\ ret.raised # "none") => tree = before

(***************************************************************************)
(* The claims about search_code, checked under SpecSearch.                 *)
(***************************************************************************)
Scanned(roots) == {f \in AllFiles : \E i \in DOMAIN roots :
                      roots[i] = "src" /\ f \in SrcFiles}

MatchOf(rg, pattern, line) ==
    IF rg THEN RgMatch(pattern, line) ELSE PyMatch(pattern, line)

MatchingLines(rg, pattern, f) ==
    {i \in 1..Len(sfs[f]) : MatchOf(rg, pattern, sfs[f][i])}

HitSet(hs) == {hs[i] : i \in DOMAIN hs}

\* C8: a search that returns holds exactly one hit for every scanned file
\* with a matching line, at the first matching line of that file, and no
\* other hit.
C8_OneHitPerFile ==
    (pc = "returned" /\ searchErr = "none" /\ call.roots # <<>>) =>
        /\ HitSet(hits) =
              {Hit(sfs, f, Min(MatchingLines(hasRg, call.pattern, f))) :
                  f \in {g \in Scanned(call.roots) :
                            MatchingLines(hasRg, call.pattern, g) # {}}}
        /\ \A i, j \in DOMAIN hits : hits[i].path = hits[j].path => i = j

\* C9: on the same tree, pattern and roots the other backend returns,
\* whatever the order of its walk, the same set of hits as the backend
\* that ran, and fails when it failed.
C9_BackendsAgree ==
    pc = "returned" =>
        \A order \in Orders :
            LET other == SearchCode(sfs, call.pattern, call.roots, ~hasRg, order)
            IN  /\ other.raised = searchErr
                /\ HitSet(other.hits) = HitSet(hits)

\* C10: a search with an empty root list, or with a pattern no line under
\* the roots matches, returns the empty sequence and raises nothing.
C10_EmptyResult ==
    (pc = "returned"
     /\ \/ call.roots = <<>>
        \/ \A f \in Scanned(call.roots) :
              /\ MatchingLines(TRUE, call.pattern, f) = {}
              /\ MatchingLines(FALSE, call.pattern, f) = {}) =>
        (hits = <<>> /\ searchErr = "none")

(***************************************************************************)
(* run_tests(repo_path, paths, python_exe): the result it builds from what *)
(* the pytest subprocess printed (stdout followed by stderr, as one text)  *)
(* and from its return code.  The text is a sequence of characters, with   *)
(* the words "failed" and "passed" taken as one character each.            *)
(***************************************************************************)
Digits == {"0", "1"}

DigitValue(c) == IF c = "1" THEN 1 ELSE 0

\* the characters the pattern \s matches
Whitespace == {" ", LF}

RECURSIVE IntOf(_)
\* int(m.group(1))
IntOf(ds) ==
    IF ds = <<>> THEN 0
    ELSE 10 * IntOf(SubSeq(ds, 1, Len(ds) - 1)) + DigitValue(ds[Len(ds)])

\* where the run of digits that starts at i ends
DigitRunEnd(out, i) ==
    Max({j \in i..Len(out) : \A m \in i..j : out[m] \in Digits})

\* (\d+)\s+<word> matches at i: the digits from i on, one or more
\* whitespace characters, the word
MatchesAt(out, i, word) ==
    /\ out[i] \in Digits
    /\ \E k \in (DigitRunEnd(out, i) + 2)..Len(out) :
          /\ out[k] = word
          /\ \A m \in (DigitRunEnd(out, i) + 1)..(k - 1) : out[m] \in Whitespace

\* re.search(r"(\d+)\s+<word>", out): the count of the leftmost match, and 0
\* (the value passed and failed start with) when nothing matches
ParsedCount(word, out) ==
    LET at == {i \in 1..Len(out) : MatchesAt(out, i, word)}
    IN  IF at = {} THEN 0
        ELSE IntOf(SubSeq(out, Min(at), DigitRunEnd(out, Min(at))))

\* "\n…(truncated)…\n", the words between the line breaks as one character
TruncationMarker == <<LF, "...(truncated)...", LF>>

\* out[:n]
Prefix(s, n) == SubSeq(s, 1, Min({n, Len(s)}))

\* out[-n:], which is all of out when n is 0
Suffix(s, n) == IF n = 0 THEN s ELSE SubSeq(s, Max({1, Len(s) - n + 1}), Len(s))

\* a log that keeps the head of the output only
TruncateHeadOnly(out, max_output) ==
    IF Len(out) > max_output
    THEN Prefix(out, max_output) \o TruncationMarker
    ELSE out

\* the log: the output, or its first and last max_output // 2 characters
\* around the marker when it is longer than max_output
Truncate(out, max_output) ==
    IF Len(out) > max_output
    THEN LET half == max_output \div 2
         IN  Prefix(out, half) \o TruncationMarker \o Suffix(out, half)
    ELSE out

RunTests(out, returncode, max_output) ==
    [exit_code |-> returncode,
     passed |-> ParsedCount("passed", out),
     failed |-> ParsedCount("failed", out),
     log |-> Truncate(out, max_output)]

(***************************************************************************)
(* SpecTests: one run_tests call whose subprocess exits, with every        *)
(* captured output of at most MaxOutLen characters and either return       *)
(* code.  The code's max_output is 20000 characters; the model runs the    *)
(* same slicing with a ceiling of OutputCeiling characters.                *)
(***************************************************************************)
OutputCeiling == 4

MaxOutLen == 6

OutChars == {"1", " ", LF, "failed", "passed"}

Outputs == SeqsUpTo(OutChars, MaxOutLen)

ReturnCodes == {0, 1}

InitTests ==
    /\ pc = "ready"
    /\ call = NoCall
    /\ PatchIdle
    /\ LoopIdle
    /\ SearchIdle
    /\ ProvIdle

RunTestsCall ==
    /\ pc = "ready"
    /\ \E out \in Outputs, returncode \in ReturnCodes :
          /\ call' = [tool |-> "run_tests", out |-> out,
                      returncode |-> returncode]
          /\ ret' = RunTests(out, returncode, OutputCeiling)
          /\ pc' = "returned"
    /\ UNCHANGED <<tree, before>>
    /\ UNCHANGED loopVars
    /\ UNCHANGED searchVars
    /\ UNCHANGED provVars

NextTests == RunTestsCall

SpecTests == InitTests /\ [][NextTests]_vars

\* C11: whenever a completed run_tests call returns exit_code 0, the failed
\* count it returns is 0, whatever the subprocess printed.
C11_ResultConsistency ==
    (pc = "returned" /\ call.tool = "run_tests") =>
        (ret.exit_code = 0 => ret.failed = 0)

\* the last line of a text, without its line break
LastLine(s) == SplitLines(s)[Len(SplitLines(s))]

\* the last line of a text, with its line break when it ends in one
LastLineKeepEnd(s) == SplitLinesKeepEnds(s)[Len(SplitLinesKeepEnds(s))]

\* the log is a head of the output, the marker, and a tail of the output
HeadMarkerTail(out, log) ==
    \E n \in 0..Len(out) :
        log = SubSeq(out, 1, n) \o TruncationMarker
              \o SubSeq(out, Len(out) - n + 1, Len(out))

\* C12 (as stated): for every output longer than the ceiling, the log is a
\* head segment, the truncation marker and a tail segment, and its last
\* line is the last line of the output, whatever the length of that line.
C12_LastLineKept ==
    (pc = "returned" /\ call.tool = "run_tests"
        /\ Len(call.out) > OutputCeiling) =>
        /\ HeadMarkerTail(call.out, ret.log)
        /\ LastLine(ret.log) = LastLine(call.out)

\* C12 (amended): for every output longer than the ceiling, the log is a
\* head segment, the truncation marker and a tail segment, and its last
\* line is the last line of the output whenever that line, with its line
\* break, is at most max_output // 2 characters long.
C12_ShortLastLineKept ==
    (pc = "returned" /\ call.tool = "run_tests"
        /\ Len(call.out) > OutputCeiling) =>
        /\ HeadMarkerTail(call.out, ret.log)
        /\ Len(LastLineKeepEnd(call.out)) <= OutputCeiling \div 2 =>
               LastLine(ret.log) = LastLine(call.out)

\* an output longer than the ceiling whose last line is a whole line of
\* the tail segment
C12_Witness ==
    /\ pc = "returned"
    /\ call.tool = "run_tests"
    /\ Len(call.out) > OutputCeiling
    /\ Len(LastLineKeepEnd(call.out)) = OutputCeiling \div 2
    /\ LastLine(call.out) # <<>>
    /\ LastLine(ret.log) = LastLine(call.out)

\* C15: an apply_patch call that fails with FileNotFoundError or IndexError
\* is a failed iteration the loop recovers from: the error is not thrown
\* past the run and the attempt is not aborted by it.
C15_PatchErrorRecoverable ==
    (call.tool = "apply_patch"
        /\ ret.raised \in {"FileNotFoundError", "IndexError"}) =>
        (uncaught = "none" /\ term # "aborted")

\* a git_reset call of the critic's last turn returned ok = False
FailedReset == \E i \in 1..Len(resets) : ~resets[i]

\* C16: once a reset has failed, the attempt is Aborted when the critic's
\* turn is over: no patch or test step follows on that workspace.
C16_FailedResetAborts ==
    FailedReset => (pc = "critic" \/ term = "aborted")

(***************************************************************************)
(* SpecLive: the attempt of Spec, where a subprocess a tool starts (rg,    *)
(* pytest, git) may also never exit.  subprocess.run is given no timeout,  *)
(* so the call then neither returns nor raises and the process stays in    *)
(* it.  Whatever step the process can take, it takes in the end.           *)
(***************************************************************************)
SubprocessTools == {"search_code", "run_tests", "git_reset"}

\* the process is inside a subprocess.run call that does not return
Blocked == "hung" \in DOMAIN call

SubprocessHangs ==
    /\ ~Blocked
    /\ \E tool \in SubprocessTools :
          /\ CanCall(tool)
          /\ tool = "search_code" => hasRg
          /\ call' = [tool |-> tool, hung |-> TRUE]
    /\ UNCHANGED <<pc, iter, term, escalate, uncaught, tree, cwd, turnCalls,
                   cycles, trace, testResult, resets, before, ret, sfs, hasRg,
                   hits, searchErr>>
    /\ UNCHANGED provVars

Running == ~Blocked /\ Next

NextLive == Running \/ SubprocessHangs

SpecLive == Init /\ [][NextLive]_vars /\ WF_vars(NextLive)

\* C17: every attempt reaches a terminal state in the end, also when a
\* subprocess never exits on its own.
C17_EventuallyTerminal == <>(term # "pending")

\* two git_reset calls in a row with the same arguments
RepeatedReset ==
    /\ call.tool = "git_reset"
    /\ call' = call
    /\ Len(resets) >= 1
    /\ Len(resets') = Len(resets) + 1

\* C18: a git_reset call that follows a git_reset call with the same
\* arguments leaves the tree (the contents of the tracked files and the
\* untracked files there are) as the first call left it and returns the
\* same ok: it does not fail for want of something to reset.
C18_ResetIdempotent ==
    [][RepeatedReset =>
          (tree' = tree /\ resets'[Len(resets')] = resets[Len(resets)])]_vars

\* the first iteration's patch was applied and two resets in the checkout
\* followed, both succeeding
C18_Witness ==
    /\ pc = "critic"
    /\ iter = 0
    /\ cwd = "repo"
    /\ ret.raised = "none"
    /\ ret.diff # <<>>
    /\ resets = <<TRUE, TRUE>>
    /\ tree = BaseTree

\* the lines of a file as a reader of the file counts them: a line ends at
\* LF, at CR, or at CR LF, and at no other character
LineCount(bytes) ==
    Len(SplitLinesKeepEnds(
        [i \in 1..Len(bytes) |-> IF bytes[i] = FF THEN "a" ELSE bytes[i]]))

\* C19: apply_patch raises FileNotFoundError when file_path is not a file,
\* raises IndexError for every line_number outside 1..lineCount of the
\* file, and succeeds for every line_number inside 1..lineCount.
C19_LineEditErrors ==
    (pc = "returned" /\ call.tool = "apply_patch") =>
        IF ~IsFile(before, call.file_path)
        THEN ret.raised = "FileNotFoundError"
        ELSE IF call.line_number \notin 1..LineCount(before[call.file_path])
             THEN ret.raised = "IndexError"
             ELSE ret.raised = "none"

(***************************************************************************)
(* prepare_repo(repo_slug, commit, workspace_root, mirror_root) and        *)
(* setup_env(slug, mirror_root), for the one repository of the instance,   *)
(* whose checkout has a requirements.txt at its root.  runner.py starts    *)
(* one container per instance: a container has its own /tmp and shares     *)
(* the host's mirror directory, mounted at /mirror, with every other       *)
(* container.  Nothing takes a lock.                                       *)
(***************************************************************************)
Containers == {"c1", "c2"}

WorkspaceRoots == {"/tmp", "/work"}

\* where setup_env looks for requirements.txt: pathlib.Path("/tmp") / slug
ManifestRoot == "/tmp"

NoVenv == [exists |-> FALSE, deps |-> FALSE]

IdleProc == [at |-> "idle", workspace_root |-> "none", history |-> <<>>]

\* the call of container p ends: it returns or raises
Finish(p, outcome, deps) ==
    [proc EXCEPT ![p].at = "idle",
                 ![p].history = Append(@, [workspace_root |-> proc[p].workspace_root,
                                           outcome |-> outcome,
                                           deps |-> deps])]

\* the four git commands, each with check=True, in workspace_root/slug/src:
\* git remote add fails when an earlier call added the remote; git fetch
\* may fail, after the remote was added
GitCommands(state, fetch_ok) ==
    IF state # "absent" THEN [state |-> state, raised |-> TRUE]
    ELSE IF ~fetch_ok THEN [state |-> "remote_added", raised |-> TRUE]
    ELSE [state |-> "checked_out", raised |-> FALSE]

\* requirements.txt is a file under /tmp/slug/src of the container
ReqIsFile(p) == checkout[p][ManifestRoot] = "checked_out"

(***************************************************************************)
(* SpecProvision: the processes of two containers call prepare_repo, each  *)
(* at most MaxCalls times, one call after the other; the steps of the two  *)
(* interleave.                                                             *)
(***************************************************************************)
MaxCalls == 2

InitProvision ==
    /\ pc = "provision"
    /\ venv = NoVenv
    /\ checkout = [p \in Containers |-> [w \in WorkspaceRoots |-> "absent"]]
    /\ proc = [p \in Containers |-> IdleProc]
    /\ call = NoCall
    /\ PatchIdle
    /\ LoopIdle
    /\ SearchIdle

\* what provisioning leaves alone
ProvFrame ==
    /\ UNCHANGED <<pc, tree, before, call, ret>>
    /\ UNCHANGED loopVars
    /\ UNCHANGED searchVars

\* prepare_repo up to the call of setup_env
PrepareRepo(p) ==
    /\ proc[p].at = "idle"
    /\ Len(proc[p].history) < MaxCalls
    /\ \E workspace_root \in WorkspaceRoots, fetch_ok \in BOOLEAN :
          LET g == GitCommands(checkout[p][workspace_root], fetch_ok)
              started == [proc EXCEPT ![p].workspace_root = workspace_root]
          IN  /\ checkout' = [checkout EXCEPT ![p][workspace_root] = g.state]
              /\ proc' = IF g.raised
                         THEN [started EXCEPT
                                 ![p].history = Append(@,
                                     [workspace_root |-> workspace_root,
                                      outcome |-> "CalledProcessError",
                                      deps |-> FALSE])]
                         ELSE [started EXCEPT ![p].at = "setup_env"]
    /\ UNCHANGED venv
    /\ ProvFrame

\* setup_env: venv_root.exists()
SetupEnvExists(p) ==
    /\ proc[p].at = "setup_env"
    /\ proc' = IF venv.exists
               THEN Finish(p, "returned", venv.deps)
               ELSE [proc EXCEPT ![p].at = "venv"]
    /\ UNCHANGED <<venv, checkout>>
    /\ ProvFrame

\* setup_env: python3 -m venv, then req.is_file()
CreateVenv(p) ==
    /\ proc[p].at = "venv"
    /\ \/ /\ venv' = [venv EXCEPT !.exists = TRUE]
          /\ proc' = IF ReqIsFile(p)
                     THEN [proc EXCEPT ![p].at = "pip"]
                     ELSE Finish(p, "returned", venv.deps)
       \/ /\ venv' \in {venv, [venv EXCEPT !.exists = TRUE]}
          /\ proc' = Finish(p, "CalledProcessError", FALSE)
    /\ UNCHANGED checkout
    /\ ProvFrame

\* setup_env: pip install -r requirements.txt
PipInstall(p) ==
    /\ proc[p].at = "pip"
    /\ \/ /\ venv' = [venv EXCEPT !.deps = TRUE]
          /\ proc' = Finish(p, "returned", TRUE)
       \/ /\ venv' = venv
          /\ proc' = Finish(p, "CalledProcessError", FALSE)
    /\ UNCHANGED checkout
    /\ ProvFrame

NextProvision ==
    \E p \in Containers :
        \/ PrepareRepo(p)
        \/ SetupEnvExists(p)
        \/ CreateVenv(p)
        \/ PipInstall(p)

SpecProvision == InitProvision /\ [][NextProvision]_vars

\* the process of container p is creating the venv or installing into it
InRuntime(p) == proc[p].at \in {"venv", "pip"}

\* this step, the call of container p returns the python path
Returns(p) ==
    /\ Len(proc'[p].history) = Len(proc[p].history) + 1
    /\ proc'[p].history[Len(proc'[p].history)].outcome = "returned"

\* C13: no two prepare_repo calls for the repository are creating or
\* installing into its venv at the same time, and none returns the python
\* path while another is creating or installing.
C13_MutualExclusion ==
    [][\A p, q \in Containers :
          p # q => /\ ~(InRuntime(p) /\ InRuntime(q))'
                   /\ Returns(p) => ~InRuntime(q)]_vars

\* C14: a prepare_repo call with the workspace_root of an earlier call
\* that returned, in the same container, returns too.
C14_PrepareRepoIdempotent ==
    \A p \in Containers :
        \A i, j \in 1..Len(proc[p].history) :
            (/\ i < j
             /\ proc[p].history[i].outcome = "returned"
             /\ proc[p].history[i].workspace_root
                    = proc[p].history[j].workspace_root) =>
                proc[p].history[j].outcome = "returned"

\* C20: every prepare_repo call that returned the python path returned it
\* when the requirements of the checkout were installed in the venv.
C20_DepsInstalled ==
    \A p \in Containers :
        \A i \in 1..Len(proc[p].history) :
            proc[p].history[i].outcome = "returned" => proc[p].history[i].deps

\* this step is a git_reset call
ResetStep ==
    /\ call'.tool = "git_reset"
    /\ Len(resets') = Len(resets) + 1

\* C21: what a git_reset call does to the working tree at repo_path depends
\* on its arguments only: the call leaves the tree as the same call would
\* leave it in a process with any other current directory.
C21_ResetIgnoresCwd ==
    [][ResetStep =>
          \A dir \in Cwds :
              GitReset(tree, dir, call'.commit, call'.clean_untracked).tree
                  = tree']_vars

=============================================================================
